---- MODULE Spec2Model ----
(***************************************************************************)
(* The ID generator of src/src/id_utils.ts (class ID): the process-wide    *)
(* statics lastTimestamp and sequence, the instances and their machineId,  *)
(* the wall clock read by Date.now(), and the operations                   *)
(*   new ID(machineId), getSnowflakeID(), waitNextMilles(), getUniqueID(); *)
(* and the functions of the library that use it or stand beside it:        *)
(*   jsonToCsv, jsonToExcel            (SpecExport)                        *)
(*   errorResponse, toJson             (SpecExpress)                       *)
(*   DeleteFileSpacesBucket, envValidator, hasData   (SpecSpaces)          *)
(*   String.prototype.cUpdateQueryParam, cIsValidUrl (SpecString)          *)
(*   compareJSONObjects                (SpecJson)                          *)
(*   FileUploadToLocalServer           (SpecLocalUpload)                   *)
(*   FileUploadToSpacesBucket          (SpecBucketUpload)                  *)
(*                                                                         *)
(* JavaScript runs each call to completion: no other call of the process   *)
(* starts while getSnowflakeID is on the stack, also while it spins in     *)
(* waitNextMilles.  Only the wall clock changes during a call.  Async      *)
(* functions give way to other calls at their awaits only.                 *)
(*                                                                         *)
(* The strings the generator returns, file paths and environment values    *)
(* are sequences of one-character strings; names, messages and the parts   *)
(* of a URL are strings.                                                   *)
(***************************************************************************)
EXTENDS Integers, Sequences, FiniteSets, TLC

(***************************************************************************)
(* Bounds.  The widths and the epoch are the program's constants scaled    *)
(* down, so that a wrap of the sequence and a whole epoch of clock time    *)
(* lie within reach of the model checker:                                  *)
(*   EPOCH           1625097600000 in the source (id_utils.ts:6)           *)
(*   MACHINE_ID_BITS 5 in the source             (id_utils.ts:9)           *)
(*   SEQUENCE_BITS   12 in the source            (id_utils.ts:10)          *)
(* so MAX_MACHINE_ID stands for 31, MAX_SEQUENCE for 4095 and the shift    *)
(* MACHINE_ID_BITS + SEQUENCE_BITS for 17.  Every formula below is stated  *)
(* in terms of these names.                                                *)
(***************************************************************************)
EPOCH == 2

MACHINE_ID_BITS == 1

SEQUENCE_BITS == 1

\* The width above which a timestamp is called large: it stands for the 41
\* bits of the usual Snowflake layout. The source gives the timestamp no
\* width; only the formulas about large timestamps use this name.
TIMESTAMP_BITS == 1

\* Largest reading of the millisecond clock.
MaxClock == 4

\* Largest number of ID instances alive in the process.
MaxInstances == 2

\* Largest number of Snowflake IDs issued in one behaviour.
MaxCalls == 4

\* Number of concurrent logical callers of SpecConcurrent, and of requests
\* answered in SpecExpress.
NCallers == 4

\* Largest length argument given to getUniqueID.
MaxLength == 1

\* Number of jsonToCsv / jsonToExcel calls made.
MaxExports == 3

(***************************************************************************)
(* Arithmetic of the source: 1 << n, BigInt << n, &, | and the decimal     *)
(* rendering of a BigInt.                                                  *)
(***************************************************************************)
RECURSIVE Pow2(_)
Pow2(n) == IF n = 0 THEN 1 ELSE 2 * Pow2(n - 1)

\* a << n on a BigInt (no width: nothing is cut off).
ShiftLeft(a, n) == a * Pow2(n)

\* a >> n on a BigInt: the arithmetic shift, rounding down.
ShiftRight(a, n) == a \div Pow2(n)

\* a | b on two's-complement integers of unbounded width.
RECURSIVE BitOr(_, _)
BitOr(a, b) ==
    IF a = 0 THEN b
    ELSE IF b = 0 THEN a
    ELSE IF a = -1 \/ b = -1 THEN -1
    ELSE (IF (a % 2) = 1 \/ (b % 2) = 1 THEN 1 ELSE 0)
         + 2 * BitOr(a \div 2, b \div 2)

\* a & b on two's-complement integers.
RECURSIVE BitAnd(_, _)
BitAnd(a, b) ==
    IF a = 0 \/ b = 0 THEN 0
    ELSE IF a = -1 THEN b
    ELSE IF b = -1 THEN a
    ELSE (IF (a % 2) = 1 /\ (b % 2) = 1 THEN 1 ELSE 0)
         + 2 * BitAnd(a \div 2, b \div 2)

MAX_MACHINE_ID == ShiftLeft(1, MACHINE_ID_BITS) - 1

MAX_SEQUENCE == ShiftLeft(1, SEQUENCE_BITS) - 1

Digits == <<"0", "1", "2", "3", "4", "5", "6", "7", "8", "9">>

RECURSIVE NatToString(_)
NatToString(n) ==
    IF n < 10 THEN <<Digits[n + 1]>>
    ELSE Append(NatToString(n \div 10), Digits[(n % 10) + 1])

\* `${id}` of a BigInt: decimal digits, a leading "-" when negative.
BigIntToString(n) == IF n < 0 THEN <<"-">> \o NatToString(-n) ELSE NatToString(n)

\* The machine id shifted one bit too far.
PackIDMachineShiftedTooFar(timestamp, machineId, seq) ==
    BitOr(BitOr(ShiftLeft(timestamp, MACHINE_ID_BITS + SEQUENCE_BITS),
                ShiftLeft(machineId, SEQUENCE_BITS + 1)),
          seq)

\* The value packed at id_utils.ts:79-82.
\* The timestamp shifted by SEQUENCE_BITS only, onto the machine-id bits.
PackIDTimestampOverlaps(timestamp, machineId, seq) ==
    BitOr(BitOr(ShiftLeft(timestamp, SEQUENCE_BITS),
                ShiftLeft(machineId, SEQUENCE_BITS)),
          seq)

PackID(timestamp, machineId, seq) ==
    BitOr(BitOr(ShiftLeft(timestamp, MACHINE_ID_BITS + SEQUENCE_BITS),
                ShiftLeft(machineId, SEQUENCE_BITS)),
          seq)

(***************************************************************************)
(* State.                                                                  *)
(***************************************************************************)
VARIABLES
    now,            \* the wall clock: what Date.now() returns
    regressed,      \* the wall clock has moved backward at least once
    lastTimestamp,  \* ID.lastTimestamp
    sequence,       \* ID.sequence
    instances,      \* the ID instances constructed: instances[i] is machineId
    pc,             \* "idle", or "wait" while a call spins in waitNextMilles
    caller,         \* the instance whose getSnowflakeID call is spinning
    result,         \* outcome of the last completed operation: the call
                    \* (op, inst, arg, flag) and what it returned or threw
    issued,         \* the strings returned by getSnowflakeID, in call order
    callers,        \* the state of each logical caller, export call,
                    \* request or delete call of the specification
    env,            \* process.env: the CDN_* variables
    bucket,         \* the keys of the objects in the Spaces bucket
    disk            \* the files under ./public: their paths and contents

vars == <<now, regressed, lastTimestamp, sequence, instances, pc, caller,
          result, issued, callers, env, bucket, disk>>

\* What the ID generator never touches.
spaces == <<env, bucket, disk>>

\* json_utils.ts:104-127: the variables envValidator requires, in its order.
CdnNames ==
    <<"CDN_BASE_URL", "CDN_ENDPOINT", "CDN_ACCESS_KEY_ID",
      "CDN_SECRET_ACCESS_KEY", "CDN_BUCKET">>

\* A variable that is not set reads as undefined.
NotSet == [set |-> FALSE, value |-> <<>>]

EnvUnset == [k \in 1..Len(CdnNames) |-> NotSet]

NoResult ==
    [op |-> "none", inst |-> 0, arg |-> 0, flag |-> FALSE, kind |-> "none",
     value |-> <<>>, error |-> ""]

Returned(op, i, arg, str) ==
    [op |-> op, inst |-> i, arg |-> arg, flag |-> FALSE, kind |-> "return",
     value |-> str, error |-> ""]

Thrown(op, i, arg, msg) ==
    [op |-> op, inst |-> i, arg |-> arg, flag |-> FALSE, kind |-> "throw",
     value |-> <<>>, error |-> msg]

Pending == [kind |-> "pending", value |-> <<>>]

\* The process starts at the epoch or later with no instance and the statics
\* of id_utils.ts:17-18; earlier clock readings come only from ClockBack.
Init ==
    /\ now = EPOCH
    /\ regressed = FALSE
    /\ lastTimestamp = -1
    /\ sequence = 0
    /\ instances = <<>>
    /\ pc = "idle"
    /\ caller = 0
    /\ result = NoResult
    /\ issued = <<>>
    /\ callers = [c \in 1..NCallers |-> Pending]
    /\ env = EnvUnset
    /\ bucket = {}
    /\ disk = {}

(***************************************************************************)
(* The wall clock.                                                         *)
(***************************************************************************)
Tick ==
    /\ now < MaxClock
    /\ now' = now + 1
    /\ UNCHANGED spaces
    /\ UNCHANGED <<regressed, lastTimestamp, sequence, instances, pc, caller,
                   result, issued, callers>>

ClockBack ==
    /\ \E t \in 0..(now - 1) : now' = t
    /\ regressed' = TRUE
    /\ UNCHANGED spaces
    /\ UNCHANGED <<lastTimestamp, sequence, instances, pc, caller, result,
                   issued, callers>>

(***************************************************************************)
(* new ID(machineId)                                                       *)
(***************************************************************************)
\* The range test with its upper bound off by one.
ValidMachineIdOffByOne(machineId) ==
    ~(machineId < 0 \/ machineId > MAX_MACHINE_ID + 1)

ValidMachineId(machineId) == ~(machineId < 0 \/ machineId > MAX_MACHINE_ID)

\* The constructor restoring the statics to their initial values.
ConstructResetsStatics(machineId) ==
    /\ pc = "idle"
    /\ IF ValidMachineId(machineId)
       THEN /\ Len(instances) < MaxInstances
            /\ instances' = Append(instances, machineId)
            /\ result' = Returned("new ID", Len(instances) + 1, machineId, <<>>)
       ELSE /\ instances' = instances
            /\ result' = Thrown("new ID", 0, machineId, "Machine ID should be between 0 and MAX_MACHINE_ID")
    /\ lastTimestamp' = -1
    /\ sequence' = 0
    /\ UNCHANGED spaces
    /\ UNCHANGED <<now, regressed, pc, caller, issued, callers>>

Construct(machineId) ==
    /\ pc = "idle"
    /\ IF ValidMachineId(machineId)
       THEN /\ Len(instances) < MaxInstances
            /\ instances' = Append(instances, machineId)
            /\ result' = Returned("new ID", Len(instances) + 1, machineId, <<>>)
       ELSE /\ instances' = instances
            /\ result' = Thrown("new ID", 0, machineId, "Machine ID should be between 0 and MAX_MACHINE_ID")
    /\ UNCHANGED spaces
    /\ UNCHANGED <<now, regressed, lastTimestamp, sequence, pc, caller, issued,
                   callers>>

(***************************************************************************)
(* getSnowflakeID() and waitNextMilles()                                   *)
(***************************************************************************)
\* id_utils.ts:57: the timestamp relative to the epoch.
RelativeTimestamp(t) == t - EPOCH

\* The regression test left out: every reading is accepted.
ClockNeverMovedBackwards(timestamp, last) == FALSE

\* id_utils.ts:59: the clock-regression test.
ClockMovedBackwards(timestamp, last) == timestamp < last

\* The increment saturating at MAX_SEQUENCE instead of wrapping to 0.
NextSequenceSaturating(seq) == IF seq = MAX_SEQUENCE THEN seq ELSE seq + 1

\* The mask left out: the sequence grows past MAX_SEQUENCE.
NextSequenceUnmasked(seq) == seq + 1

\* The sequence restarting at 0 on every call.
NextSequenceRestarts(seq) == 0

\* id_utils.ts:65: the sequence of the next ID of the same millisecond.
NextSequence(seq) == BitAnd(seq + 1, MAX_SEQUENCE)

\* The reset left out: the sequence of the previous millisecond is kept.
NewMillisecondSequenceKept(seq) == seq

\* id_utils.ts:72: the sequence of the first ID of a new millisecond.
NewMillisecondSequence(seq) == 0

\* The loop condition stuck at true: waitNextMilles never returns.
SpinsForever(timestamp, last) == TRUE

\* The spin left out: waitNextMilles returns its first reading.
NeverWaits(timestamp, last) == FALSE

\* id_utils.ts:44: waitNextMilles keeps spinning while this holds of the raw
\* Date.now() reading and the (epoch-relative) lastTimestamp it was given.
KeepsWaiting(timestamp, last) == timestamp <= last

\* The ID packed from the timestamp of the previous call.
IssueStaleTimestamp(i, timestamp, seq) ==
    LET id == BigIntToString(PackID(lastTimestamp, instances[i], seq))
    IN  /\ lastTimestamp' = timestamp
        /\ result' = Returned("getSnowflakeID", i, 0, id)
        /\ issued' = Append(issued, id)
        /\ pc' = "idle"
        /\ caller' = 0

\* id_utils.ts:76-84: store the timestamp, pack the ID and return its string.
Issue(i, timestamp, seq) ==
    LET id == BigIntToString(PackID(timestamp, instances[i], seq))
    IN  /\ lastTimestamp' = timestamp
        /\ result' = Returned("getSnowflakeID", i, 0, id)
        /\ issued' = Append(issued, id)
        /\ pc' = "idle"
        /\ caller' = 0

\* id_utils.ts:55-85, up to the return, the throw or the entry of the spin.
SnowflakeCall(i) ==
    /\ pc = "idle"
    /\ i \in 1..Len(instances)
    /\ Len(issued) < MaxCalls
    /\ LET timestamp == RelativeTimestamp(now)
       IN  IF ClockMovedBackwards(timestamp, lastTimestamp)
           THEN /\ result' = Thrown("getSnowflakeID", i, 0,
                                    "Clock moved backwards. Rejecting request.")
                /\ UNCHANGED <<lastTimestamp, sequence, issued, pc, caller>>
           ELSE IF timestamp = lastTimestamp
           THEN /\ sequence' = NextSequence(sequence)
                /\ IF sequence' = 0
                   THEN /\ pc' = "wait"
                        /\ caller' = i
                        /\ UNCHANGED <<lastTimestamp, result, issued>>
                   ELSE Issue(i, timestamp, sequence')
           ELSE /\ sequence' = NewMillisecondSequence(sequence)
                /\ Issue(i, timestamp, sequence')
    /\ UNCHANGED spaces
    /\ UNCHANGED <<now, regressed, instances>>

\* id_utils.ts:42-48 and 68-84: the spin ends at the first raw reading of
\* Date.now() above lastTimestamp, and that reading becomes the timestamp.
SnowflakeWaitReturn ==
    /\ pc = "wait"
    /\ LET timestamp == now
       IN  /\ ~KeepsWaiting(timestamp, lastTimestamp)
           /\ Issue(caller, timestamp, sequence)
    /\ UNCHANGED spaces
    /\ UNCHANGED <<now, regressed, sequence, instances>>

GetSnowflakeID(i) == SnowflakeCall(i) /\ UNCHANGED callers

WaitNextMilles == SnowflakeWaitReturn /\ UNCHANGED callers

(***************************************************************************)
(* getUniqueID(length, timeStamp)                                          *)
(***************************************************************************)
characters ==
    <<"a", "b", "c", "d", "e", "f", "g", "h", "i", "j", "k", "l", "m",
      "n", "o", "p", "q", "r", "s", "t", "u", "v", "w", "x", "y", "z",
      "A", "B", "C", "D", "E", "F", "G", "H", "I", "J", "K", "L", "M",
      "N", "O", "P", "Q", "R", "S", "T", "U", "V", "W", "X", "Y", "Z",
      "0", "1", "2", "3", "4", "5", "6", "7", "8", "9">>

Base36Digits ==
    <<"0", "1", "2", "3", "4", "5", "6", "7", "8", "9", "a", "b",
      "c", "d", "e", "f", "g", "h", "i", "j", "k", "l", "m", "n",
      "o", "p", "q", "r", "s", "t", "u", "v", "w", "x", "y", "z">>

RECURSIVE NatToBase36(_)
NatToBase36(n) ==
    IF n < 36 THEN <<Base36Digits[n + 1]>>
    ELSE Append(NatToBase36(n \div 36), Base36Digits[(n % 36) + 1])

\* The clock rendered in decimal instead of base 36.
ToString36Decimal(n) == BigIntToString(n)

\* Number.prototype.toString(36) of an integer.
ToString36(n) == IF n < 0 THEN <<"-">> \o NatToBase36(-n) ELSE NatToBase36(n)

\* The values of Math.floor(Math.random() * characters.length) drawn: the
\* first and the last index of the alphabet.
RandomIndexes == {0, Len(characters) - 1}

\* The length arguments drawn.
Lengths == (-1)..MaxLength

\* The loop running once more: for (i = 0; i <= length; i++).
RandomStrInclusive(length, draw) ==
    [k \in 1..(IF length >= 0 THEN length + 1 ELSE 0) |->
        IF k <= length THEN characters[draw[k] + 1] ELSE characters[1]]

\* id_utils.ts:99-108: one character per iteration of for (i = 0; i < length; i++).
RandomStr(length, draw) ==
    [k \in 1..(IF length > 0 THEN length ELSE 0) |-> characters[draw[k] + 1]]

\* getUniqueID taking a sequence number of the generator as it returns.
UniqueIDCallTakesSequence(i, length, timeStamp, indexes) ==
    /\ pc = "idle"
    /\ i \in 1..Len(instances)
    /\ \E draw \in [1..(IF length > 0 THEN length ELSE 0) -> indexes] :
          result' = [Returned("getUniqueID", i, length,
                              (IF timeStamp THEN ToString36(now) ELSE <<>>)
                                 \o RandomStr(length, draw))
                        EXCEPT !.flag = timeStamp]
    /\ sequence' = NextSequence(sequence)
    /\ UNCHANGED spaces
    /\ UNCHANGED <<now, regressed, lastTimestamp, instances, pc, caller,
                   issued, callers>>

\* id_utils.ts:91-112 with the values of Math.random() taken from indexes.
UniqueIDCall(i, length, timeStamp, indexes) ==
    /\ pc = "idle"
    /\ i \in 1..Len(instances)
    /\ \E draw \in [1..(IF length > 0 THEN length ELSE 0) -> indexes] :
          result' = [Returned("getUniqueID", i, length,
                              (IF timeStamp THEN ToString36(now) ELSE <<>>)
                                 \o RandomStr(length, draw))
                        EXCEPT !.flag = timeStamp]
    /\ UNCHANGED spaces
    /\ UNCHANGED <<now, regressed, lastTimestamp, sequence, instances, pc,
                   caller, issued, callers>>

GetUniqueID(i, length, timeStamp) ==
    UniqueIDCall(i, length, timeStamp, RandomIndexes)

(***************************************************************************)
(* The process: any operation on any instance, under any clock.            *)
(***************************************************************************)
MachineIdArgs == (-1)..(MAX_MACHINE_ID + 1)

Next ==
    \/ Tick
    \/ ClockBack
    \/ \E machineId \in MachineIdArgs : Construct(machineId)
    \/ \E i \in 1..MaxInstances : GetSnowflakeID(i)
    \/ WaitNextMilles
    \/ \E i \in 1..MaxInstances, length \in Lengths, timeStamp \in BOOLEAN :
          GetUniqueID(i, length, timeStamp)

Spec == Init /\ [][Next]_vars

\* The clock eventually advances: it moves back only finitely often and,
\* below MaxClock, it ticks; and the loop of waitNextMilles keeps running.
SpecLive ==
    /\ Init
    /\ [][Next]_vars
    /\ WF_vars(Tick)
    /\ WF_vars(WaitNextMilles)
    /\ <>[][now' >= now]_now

(***************************************************************************)
(* Concurrent logical callers sharing one generator instance: each caller  *)
(* requests one Snowflake ID; requests run in any order, each to           *)
(* completion, while the clock advances.                                   *)
(***************************************************************************)
InitConcurrent ==
    /\ now = EPOCH
    /\ regressed = FALSE
    /\ lastTimestamp = -1
    /\ sequence = 0
    /\ \E machineId \in 0..MAX_MACHINE_ID : instances = <<machineId>>
    /\ pc = "idle"
    /\ caller = 0
    /\ result = NoResult
    /\ issued = <<>>
    /\ callers = [c \in 1..NCallers |-> Pending]
    /\ env = EnvUnset
    /\ bucket = {}
    /\ disk = {}

CallerRequest(c) ==
    /\ callers[c].kind = "pending"
    /\ SnowflakeCall(1)
    /\ callers' = [callers EXCEPT ![c] =
                      IF pc' = "wait" THEN [kind |-> "running", value |-> <<>>]
                      ELSE [kind |-> result'.kind, value |-> result'.value]]

CallerWaitReturn ==
    /\ SnowflakeWaitReturn
    /\ callers' = [c \in 1..NCallers |->
                      IF callers[c].kind = "running"
                      THEN [kind |-> "return", value |-> result'.value]
                      ELSE callers[c]]

NextConcurrent ==
    \/ Tick
    \/ \E c \in 1..NCallers : CallerRequest(c)
    \/ CallerWaitReturn

SpecConcurrent == InitConcurrent /\ [][NextConcurrent]_vars

(***************************************************************************)
(* getUniqueID alone: one instance, the clock at any of ClockSamples, and  *)
(* Math.random() reaching every index of the alphabet.                     *)
(***************************************************************************)
\* Readings of Date.now(): around the powers of 36 and up to 2^31 - 1.
ClockSamples == {0, 9, 10, 35, 36, 1295, 1296, 46656, 1625097600, 2147483647}

\* Every value of Math.floor(Math.random() * characters.length).
AllRandomIndexes == 0..(Len(characters) - 1)

InitUniqueID ==
    /\ now \in ClockSamples
    /\ regressed = FALSE
    /\ lastTimestamp = -1
    /\ sequence = 0
    /\ instances = <<0>>
    /\ pc = "idle"
    /\ caller = 0
    /\ result = NoResult
    /\ issued = <<>>
    /\ callers = [c \in 1..NCallers |-> Pending]
    /\ env = EnvUnset
    /\ bucket = {}
    /\ disk = {}

\* One call is followed from each clock reading: getUniqueID reads only the
\* clock and its arguments and changes nothing that a later call reads.
GetUniqueIDAnyDraw(length, timeStamp) ==
    /\ result.op = "none"
    /\ UniqueIDCall(1, length, timeStamp, AllRandomIndexes)

NextUniqueID ==
    \E length \in Lengths, timeStamp \in BOOLEAN :
        GetUniqueIDAnyDraw(length, timeStamp)

SpecUniqueID == InitUniqueID /\ [][NextUniqueID]_vars

(***************************************************************************)
(* jsonToCsv(json, name) and jsonToExcel(jsonData, fileName): each call    *)
(* constructs its own new ID(1), takes a Snowflake ID for the file name    *)
(* before its first await, then writes the file; calls overlap only at     *)
(* their awaits.                                                           *)
(***************************************************************************)
\* part_004:65, depreciated.ts:104: the machine id of every export's generator.
ExportMachineId == 1

\* The directory prefix imported from ../utils/utils: one fixed string.
exportPath == <<"x", "/">>

\* String.prototype.toUpperCase on the characters of the alphabet.
ToUpperCase(s) ==
    [k \in 1..Len(s) |->
        IF \E j \in 1..26 : characters[j] = s[k]
        THEN characters[26 + (CHOOSE j \in 1..26 : characters[j] = s[k])]
        ELSE s[k]]

Extension(fn) ==
    IF fn = "jsonToCsv" THEN <<".", "c", "s", "v">>
    ELSE <<".", "x", "l", "s", "x">>

\* part_004:82-88, depreciated.ts:105-119: the path returned.
ExportFilePath(fn, name, id) ==
    exportPath \o ToUpperCase(name) \o <<"_">> \o id \o Extension(fn)

\* The base names given to the exports: they differ only in case.
ExportNames == {<<"u">>, <<"U">>}

\* The calls made: jsonToCsv with an empty array returns before it uses the
\* name, so one name stands for all.
ExportInputs ==
    {[fn |-> "jsonToCsv", empty |-> TRUE, name |-> <<"u">>]}
       \cup [fn : {"jsonToCsv", "jsonToExcel"}, empty : {FALSE},
             name : ExportNames]

PendingExport ==
    [kind |-> "pending", value |-> <<>>, fn |-> "", name |-> <<>>, inst |-> 0]

InitExport ==
    /\ now = EPOCH
    /\ regressed = FALSE
    /\ lastTimestamp = -1
    /\ sequence = 0
    /\ instances = <<>>
    /\ pc = "idle"
    /\ caller = 0
    /\ result = NoResult
    /\ issued = <<>>
    /\ callers = [c \in 1..MaxExports |-> PendingExport]
    /\ env = EnvUnset
    /\ bucket = {}
    /\ disk = {}

\* part_004:64-68, depreciated.ts:100-104: the call starts, constructs its
\* generator and, in jsonToCsv with an empty array, resolves to "". Calls
\* are numbered in the order they start, and no call starts while another
\* is between its constructor and its getSnowflakeID.
ExportBegin(c, in) ==
    /\ pc = "idle"
    /\ callers[c].kind = "pending"
    /\ \A d \in 1..MaxExports :
          /\ callers[d].kind # "constructed"
          /\ d < c => callers[d].kind # "pending"
    /\ ValidMachineId(ExportMachineId)
    /\ instances' = Append(instances, ExportMachineId)
    /\ callers' = [callers EXCEPT ![c] =
          IF in.fn = "jsonToCsv" /\ in.empty
          THEN [kind |-> "return", value |-> <<>>, fn |-> in.fn,
                name |-> in.name, inst |-> Len(instances) + 1]
          ELSE [kind |-> "constructed", value |-> <<>>, fn |-> in.fn,
                name |-> in.name, inst |-> Len(instances) + 1]]
    /\ UNCHANGED spaces
    /\ UNCHANGED <<now, regressed, lastTimestamp, sequence, pc, caller,
                   result, issued>>

\* part_004:82, depreciated.ts:105: the file name is built from the ID, in
\* the same synchronous run as the construction; a throw of getSnowflakeID
\* rejects the promise.
ExportGenerate(c) ==
    /\ callers[c].kind = "constructed"
    /\ SnowflakeCall(callers[c].inst)
    /\ callers' = [callers EXCEPT ![c] =
          IF pc' = "wait" THEN [@ EXCEPT !.kind = "spinning"]
          ELSE IF result'.kind = "throw"
          THEN [@ EXCEPT !.kind = "reject", !.value = <<>>]
          ELSE [@ EXCEPT !.kind = "writing",
                         !.value = ExportFilePath(callers[c].fn, callers[c].name,
                                                  result'.value)]]

\* The call that wrapped the sequence gets its ID from waitNextMilles.
ExportWaitReturn ==
    /\ SnowflakeWaitReturn
    /\ callers' = [c \in 1..MaxExports |->
          IF callers[c].kind = "spinning"
          THEN [callers[c] EXCEPT
                   !.kind = "writing",
                   !.value = ExportFilePath(callers[c].fn, callers[c].name,
                                            result'.value)]
          ELSE callers[c]]

\* part_004:84-88, depreciated.ts:107-119: the directory is ensured and the
\* file written; the promise resolves to the path, or rejects when the file
\* system fails.
ExportSettle(c, written) ==
    /\ callers[c].kind = "writing"
    /\ callers' = [callers EXCEPT ![c] =
          IF written THEN [@ EXCEPT !.kind = "return"]
          ELSE [@ EXCEPT !.kind = "reject", !.value = <<>>]]
    /\ UNCHANGED spaces
    /\ UNCHANGED <<now, regressed, lastTimestamp, sequence, instances, pc,
                   caller, result, issued>>

NextExport ==
    \/ Tick
    \/ ClockBack
    \/ \E c \in 1..MaxExports, in \in ExportInputs : ExportBegin(c, in)
    \/ \E c \in 1..MaxExports : ExportGenerate(c)
    \/ ExportWaitReturn
    \/ \E c \in 1..MaxExports, written \in BOOLEAN : ExportSettle(c, written)

SpecExport == InitExport /\ [][NextExport]_vars

(***************************************************************************)
(* errorResponse(res, error) and toJson(res, options): the module's one    *)
(* generator, const id = new ID(1), serves every response's default        *)
(* instance string. Each request has its own res object.                   *)
(***************************************************************************)
\* common_express_utils.ts:5: the machine id of the module's generator.
ExpressMachineId == 1

\* The error arguments given: an Error, a string, and null, whose
\* error.toString() throws a TypeError.
ErrorInputs ==
    {[type |-> "Error", message |-> "boom"],
     [type |-> "string", message |-> "bad"],
     [type |-> "null", message |-> ""]}

\* A request: kind is its errorResponse call's position or outcome, sent the
\* number of res.json calls made on its res, success and message the body
\* sent last, error the argument given.
PendingRequest ==
    [kind |-> "pending", sent |-> 0, success |-> TRUE, message |-> "",
     error |-> [type |-> "none", message |-> ""]]

InitExpress ==
    /\ now = EPOCH
    /\ regressed = FALSE
    /\ lastTimestamp = -1
    /\ sequence = 0
    /\ instances = <<ExpressMachineId>>
    /\ pc = "idle"
    /\ caller = 0
    /\ result = NoResult
    /\ issued = <<>>
    /\ callers = [c \in 1..NCallers |-> PendingRequest]
    /\ env = EnvUnset
    /\ bucket = {}
    /\ disk = {}

\* common_express_utils.ts:78-83: res.json(jsonResponse).
SendJson(req, success, message) ==
    [req EXCEPT !.kind = "return", !.sent = @ + 1, !.success = success,
                !.message = message]

\* common_express_utils.ts:93-100: the try block. The message is evaluated
\* first; toJson then builds its default instance with id.getSnowflakeID()
\* and sends the response. A throw of either enters the catch block.
ErrorResponseTry(c, error) ==
    /\ pc = "idle"
    /\ callers[c].kind = "pending"
    /\ \A d \in 1..NCallers :
          /\ callers[d].kind \notin {"catch", "spinning in try", "spinning in catch"}
          /\ d < c => callers[d].kind # "pending"
    /\ IF error.type = "null"
       THEN /\ callers' = [callers EXCEPT ![c] =
                              [@ EXCEPT !.kind = "catch", !.error = error]]
            /\ UNCHANGED spaces
            /\ UNCHANGED <<now, regressed, lastTimestamp, sequence, instances,
                           pc, caller, result, issued>>
       ELSE /\ SnowflakeCall(1)
            /\ callers' = [callers EXCEPT ![c] =
                  IF pc' = "wait"
                  THEN [@ EXCEPT !.kind = "spinning in try", !.error = error]
                  ELSE IF result'.kind = "throw"
                  THEN [@ EXCEPT !.kind = "catch", !.error = error]
                  ELSE SendJson([@ EXCEPT !.error = error], FALSE,
                                error.message)]

\* common_express_utils.ts:101-106: the catch block calls toJson again, so
\* id.getSnowflakeID() is called again; its throw leaves errorResponse.
ErrorResponseCatch(c) ==
    /\ callers[c].kind = "catch"
    /\ SnowflakeCall(1)
    /\ callers' = [callers EXCEPT ![c] =
          IF pc' = "wait" THEN [@ EXCEPT !.kind = "spinning in catch"]
          ELSE IF result'.kind = "throw" THEN [@ EXCEPT !.kind = "throw"]
          ELSE SendJson(@, FALSE, "Server crashed ")]

\* The getSnowflakeID call that wrapped the sequence returns, and toJson
\* sends the response it was building.
ErrorResponseWaitReturn ==
    /\ SnowflakeWaitReturn
    /\ callers' = [c \in 1..NCallers |->
          IF callers[c].kind = "spinning in try"
          THEN SendJson(callers[c], FALSE, callers[c].error.message)
          ELSE IF callers[c].kind = "spinning in catch"
          THEN SendJson(callers[c], FALSE, "Server crashed ")
          ELSE callers[c]]

NextExpress ==
    \/ Tick
    \/ ClockBack
    \/ \E c \in 1..NCallers, error \in ErrorInputs : ErrorResponseTry(c, error)
    \/ \E c \in 1..NCallers : ErrorResponseCatch(c)
    \/ ErrorResponseWaitReturn

SpecExpress == InitExpress /\ [][NextExpress]_vars

(***************************************************************************)
(* DeleteFileSpacesBucket(Key), with envValidator() and hasData(v).        *)
(***************************************************************************)
\* Number of DeleteFileSpacesBucket calls made.
MaxDeletes == 2

RECURSIVE TrimStart(_)
TrimStart(s) ==
    IF s # <<>> /\ s[1] = " " THEN TrimStart(Tail(s)) ELSE s

RECURSIVE TrimEnd(_)
TrimEnd(s) ==
    IF s # <<>> /\ s[Len(s)] = " " THEN TrimEnd(SubSeq(s, 1, Len(s) - 1))
    ELSE s

\* String.prototype.trim, for the space character.
Trim(s) == TrimEnd(TrimStart(s))

\* common_express_utils.ts:114-135, for undefined and for strings.
hasData(v) ==
    IF ~v.set THEN FALSE
    ELSE LET trimmedValue == Trim(v.value)
         IN  /\ trimmedValue # <<>>
             /\ trimmedValue # <<"n", "u", "l", "l">>
             /\ trimmedValue # <<"u", "n", "d", "e", "f", "i", "n", "e", "d">>

\* json_utils.ts:100-128: "" when every variable has data, otherwise the
\* name in the message of the Error thrown, "<name> env is required".
envValidator(e) ==
    IF \A k \in 1..Len(CdnNames) : hasData(e[k]) THEN ""
    ELSE CdnNames[CHOOSE k \in 1..Len(CdnNames) :
                     /\ ~hasData(e[k])
                     /\ \A j \in 1..(k - 1) : hasData(e[j])]

\* The values a CDN_* variable is given.
EnvValues ==
    {NotSet,
     [set |-> TRUE, value |-> <<" ">>],
     [set |-> TRUE, value |-> <<"n", "u", "l", "l", " ">>],
     [set |-> TRUE, value |-> <<"u", "n", "d", "e", "f", "i", "n", "e", "d">>],
     [set |-> TRUE, value |-> <<" ", "k">>]}

\* The keys given to DeleteFileSpacesBucket.
Keys == {"a.png", "b.png"}

PendingDelete == [kind |-> "pending", value |-> FALSE, key |-> "", s3 |-> "none"]

InitSpaces ==
    /\ now = EPOCH
    /\ regressed = FALSE
    /\ lastTimestamp = -1
    /\ sequence = 0
    /\ instances = <<>>
    /\ pc = "idle"
    /\ caller = 0
    /\ result = NoResult
    /\ issued = <<>>
    /\ callers = [c \in 1..MaxDeletes |-> PendingDelete]
    /\ env \in [1..Len(CdnNames) -> EnvValues]
    /\ bucket = {"a.png"}
    /\ disk = {}

\* The catch block rethrowing instead of returning false.
DeleteCaughtRethrown(req, outcome) ==
    [req EXCEPT !.kind = "reject", !.value = FALSE, !.s3 = outcome]

\* file_upload_to_spaces_bucket.ts:136-138: catch (error) { return false; }
DeleteCaught(req, outcome) ==
    [req EXCEPT !.kind = "return", !.value = FALSE, !.s3 = outcome]

\* file_upload_to_spaces_bucket.ts:117-134, up to the await: a throw of
\* envValidator is caught; otherwise the deleteObject request is sent.
DeleteBegin(c, Key) ==
    /\ callers[c].kind = "pending"
    /\ \A d \in 1..(c - 1) : callers[d].kind # "pending"
    /\ callers' = [callers EXCEPT ![c] =
          IF envValidator(env) # ""
          THEN DeleteCaught([@ EXCEPT !.key = Key], "none")
          ELSE [@ EXCEPT !.kind = "deleting", !.key = Key]]
    /\ UNCHANGED <<now, regressed, lastTimestamp, sequence, instances, pc,
                   caller, result, issued, env, bucket, disk>>

\* file_upload_to_spaces_bucket.ts:128-138: the request succeeds and the
\* call returns true, or it fails, with the object deleted or not, and the
\* catch block returns false.
DeleteSettle(c, succeeded) ==
    /\ callers[c].kind = "deleting"
    /\ IF succeeded
       THEN /\ bucket' = bucket \ {callers[c].key}
            /\ callers' = [callers EXCEPT ![c] =
                  [@ EXCEPT !.kind = "return", !.value = TRUE, !.s3 = "ok"]]
       ELSE /\ bucket' \in {bucket, bucket \ {callers[c].key}}
            /\ callers' = [callers EXCEPT ![c] = DeleteCaught(@, "failed")]
    /\ UNCHANGED <<now, regressed, lastTimestamp, sequence, instances, pc,
                   caller, result, issued, env, disk>>

NextSpaces ==
    \/ \E c \in 1..MaxDeletes, Key \in Keys : DeleteBegin(c, Key)
    \/ \E c \in 1..MaxDeletes, succeeded \in BOOLEAN : DeleteSettle(c, succeeded)

SpecSpaces == InitSpaces /\ [][NextSpaces]_vars

(***************************************************************************)
(* String.prototype.cUpdateQueryParam(key, value) and cIsValidUrl(url).    *)
(* A receiver string is held as the parts it is written from:              *)
(*   scheme ++ labels joined by "." ++ path ++ ("?" ++ pairs joined by     *)
(*   "&", when there are pairs), each pair being key "=" value.            *)
(***************************************************************************)
Receivers ==
    [scheme : {"", "http://", "https://", "ftp://"},
     host : {<<"localhost">>, <<"example", "com">>},
     path : {"", "/page"},
     query : {<<>>, <<<<"name", "John">>>>, <<<<"age", "7">>>>,
              <<<<"name", "John">>, <<"age", "7">>>>,
              <<<<"age", "7">>, <<"name", "John">>, <<"age", "8">>>>}]

\* The key and value arguments.
QueryKeys == {"age", "id"}

QueryValues == {"30"}

\* string_utils.ts:29-32: the pattern
\*   ^(https?:\/\/)?([\w-]+\.)+[\w]+(\/[\w- .\/?%&=]*)?$
\* the scheme is optional, the host has two labels or more, and a query is
\* matched only inside the optional group that starts with "/".
cIsValidUrl(url) ==
    /\ url.scheme \in {"", "http://", "https://"}
    /\ Len(url.host) >= 2
    /\ url.query # <<>> => url.path # ""

\* string_utils.ts:68: new URL(string) throws a TypeError on a string with
\* no scheme.
NewURLThrows(url) == url.scheme = ""

\* URLSearchParams.has
SearchParamsHas(query, key) == \E k \in 1..Len(query) : query[k][1] = key

\* URLSearchParams.set: the first pair of that key takes the value, the
\* other pairs of that key are removed.
SearchParamsSet(query, key, value) ==
    LET first == CHOOSE k \in 1..Len(query) :
                    /\ query[k][1] = key
                    /\ \A j \in 1..(k - 1) : query[j][1] # key
        RECURSIVE Build(_)
        Build(k) ==
            IF k = 0 THEN <<>>
            ELSE IF k = first THEN Append(Build(k - 1), <<key, value>>)
            ELSE IF query[k][1] = key THEN Build(k - 1)
            ELSE Append(Build(k - 1), query[k])
    IN  Build(Len(query))

\* URLSearchParams.append
SearchParamsAppend(query, key, value) == Append(query, <<key, value>>)

\* string_utils.ts:81-84: the URL written back; an empty path reads "/".
URLToString(url, query) ==
    [scheme |-> url.scheme, host |-> url.host,
     path |-> IF url.path = "" THEN "/" ELSE url.path, query |-> query]

\* string_utils.ts:61-89
cUpdateQueryParam(url, key, value) ==
    IF cIsValidUrl(url)
    THEN IF NewURLThrows(url)
         THEN Thrown("cUpdateQueryParam", 0, <<url, key, value>>,
                     "TypeError: Invalid URL")
         ELSE Returned("cUpdateQueryParam", 0, <<url, key, value>>,
                       URLToString(url,
                          IF SearchParamsHas(url.query, key)
                          THEN SearchParamsSet(url.query, key, value)
                          ELSE SearchParamsAppend(url.query, key, value)))
    ELSE Returned("cUpdateQueryParam", 0, <<url, key, value>>, url)

InitString ==
    /\ now = EPOCH
    /\ regressed = FALSE
    /\ lastTimestamp = -1
    /\ sequence = 0
    /\ instances = <<>>
    /\ pc = "idle"
    /\ caller = 0
    /\ result = NoResult
    /\ issued = <<>>
    /\ callers = <<>>
    /\ env = EnvUnset
    /\ bucket = {}
    /\ disk = {}

\* One call is followed: the function reads only its receiver and arguments.
UpdateQueryParam(url, key, value) ==
    /\ result.op = "none"
    /\ result' = cUpdateQueryParam(url, key, value)
    /\ UNCHANGED <<now, regressed, lastTimestamp, sequence, instances, pc,
                   caller, issued, callers, env, bucket, disk>>

NextString ==
    \E url \in Receivers, key \in QueryKeys, value \in QueryValues :
        UpdateQueryParam(url, key, value)

SpecString == InitString /\ [][NextString]_vars

(***************************************************************************)
(* compareJSONObjects(obj1, obj2). A JSON value is held as its typeof tag, *)
(* its number (0 for the others) and its own enumerable properties: the    *)
(* members of an object, the elements of an array under "0", "1", ...      *)
(***************************************************************************)
NoKids == [k \in {} |-> 0]

JNull == [t |-> "null", n |-> 0, kids |-> NoKids]

JNumber(k) == [t |-> "number", n |-> k, kids |-> NoKids]

JArray(elements) ==
    [t |-> "array", n |-> 0,
     kids |-> [k \in {<<"0", "1">>[i] : i \in 1..Len(elements)} |->
                  elements[CHOOSE i \in 1..Len(elements) : <<"0", "1">>[i] = k]]]

JObject(members) == [t |-> "object", n |-> 0, kids |-> members]

\* The values of the members of the objects compared.
JsonLeaves ==
    {JNull, JNumber(1), JNumber(2), JArray(<<>>), JObject(NoKids),
     JArray(<<JNumber(1)>>), JObject([k \in {"0"} |-> JNumber(1)])}

\* The objects compared: every object with members among "a" and "b".
JsonObjects ==
    UNION {{JObject(members) : members \in [K -> JsonLeaves]} :
              K \in SUBSET {"a", "b"}}

\* The order in which Object.keys lists the properties met here.
KeyOrder == <<"0", "1", "a", "b">>

\* typeof v === "object": true of objects, arrays and null.
TypeofObject(v) == v.t \in {"object", "array", "null"}

\* value1 === value2 where at least one side is not typeof "object".
StrictEquals(v1, v2) == v1.t = "number" /\ v2.t = "number" /\ v1.n = v2.n

\* common_express_utils.ts:226-255: "true", "false", or "throw" for the
\* TypeError of Object.keys(null).
RECURSIVE compareJSONObjects(_, _)
compareJSONObjects(obj1, obj2) ==
    IF obj1.t = "null" \/ obj2.t = "null" THEN "throw"
    ELSE LET keys1 == DOMAIN obj1.kids
             keys2 == DOMAIN obj2.kids
             RECURSIVE Every(_)
             Every(i) ==
                 IF i > Len(KeyOrder) THEN "true"
                 ELSE LET key == KeyOrder[i]
                      IN  IF key \notin keys1 THEN Every(i + 1)
                          ELSE IF key \notin keys2 THEN "false"
                          ELSE LET value1 == obj1.kids[key]
                                   value2 == obj2.kids[key]
                                   same ==
                                      IF TypeofObject(value1) /\ TypeofObject(value2)
                                      THEN compareJSONObjects(value1, value2)
                                      ELSE IF StrictEquals(value1, value2)
                                      THEN "true" ELSE "false"
                               IN  IF same = "true" THEN Every(i + 1) ELSE same
         IN  IF Cardinality(keys1) # Cardinality(keys2) THEN "false"
             ELSE Every(1)

InitJson ==
    /\ now = EPOCH
    /\ regressed = FALSE
    /\ lastTimestamp = -1
    /\ sequence = 0
    /\ instances = <<>>
    /\ pc = "idle"
    /\ caller = 0
    /\ result = NoResult
    /\ issued = <<>>
    /\ callers = <<>>
    /\ env = EnvUnset
    /\ bucket = {}
    /\ disk = {}

\* One call is followed: the function reads only its arguments.
CompareJSONObjects(obj1, obj2) ==
    /\ result.op = "none"
    /\ result' =
          LET outcome == compareJSONObjects(obj1, obj2)
          IN  IF outcome = "throw"
              THEN Thrown("compareJSONObjects", 0, <<obj1, obj2>>,
                          "TypeError: Cannot convert undefined or null to object")
              ELSE Returned("compareJSONObjects", 0, <<obj1, obj2>>,
                            outcome = "true")
    /\ UNCHANGED <<now, regressed, lastTimestamp, sequence, instances, pc,
                   caller, issued, callers, env, bucket, disk>>

NextJson ==
    \E obj1, obj2 \in JsonObjects : CompareJSONObjects(obj1, obj2)

SpecJson == InitJson /\ [][NextJson]_vars

(***************************************************************************)
(* FileUploadToLocalServer and FileUploadToSpacesBucket: each call checks  *)
(* its request, builds the path of the file under ./public and moves the   *)
(* uploaded file there; the bucket upload then sends the file to the       *)
(* bucket and unlinks the local copy. Calls overlap at their awaits.       *)
(***************************************************************************)
\* Number of upload calls made.
MaxUploads == 2

\* json_utils.ts:98.
ALLOWED_EXTENSIONS ==
    {<<".", "p", "n", "g">>, <<".", "j", "p", "g">>,
     <<".", "j", "p", "e", "g">>}

\* String.prototype.toLowerCase on the characters of the alphabet.
ToLowerCase(s) ==
    [k \in 1..Len(s) |->
        IF \E j \in 27..52 : characters[j] = s[k]
        THEN characters[(CHOOSE j \in 27..52 : characters[j] = s[k]) - 26]
        ELSE s[k]]

\* path.extname of a base name: from its last "." to its end, and "" when
\* it has no "." or only a leading one.
ExtName(name) ==
    LET dots == {k \in 1..Len(name) : name[k] = "."}
    IN  IF dots = {} THEN <<>>
        ELSE LET last == CHOOSE k \in dots : \A j \in dots : j <= k
             IN  IF last = 1 THEN <<>> ELSE SubSeq(name, last, Len(name))

\* String.prototype.replace with a string pattern: the first occurrence.
RECURSIVE Replace(_, _, _)
Replace(s, pattern, replacement) ==
    IF Len(s) < Len(pattern) THEN s
    ELSE IF SubSeq(s, 1, Len(pattern)) = pattern
    THEN replacement \o SubSeq(s, Len(pattern) + 1, Len(s))
    ELSE <<s[1]>> \o Replace(Tail(s), pattern, replacement)

public == <<".", "/", "p", "u", "b", "l", "i", "c">>

\* file_upload_to_local_server.ts:59-61: the upload directory.
upDir(DEBUG, pathToUpload) ==
    public
       \o (IF DEBUG = "false" THEN <<"/", "l", "i", "v", "e", "/">>
           ELSE <<"/", "t", "e", "s", "t", "/">>)
       \o pathToUpload

\* file_upload_to_local_server.ts:62-63: the path of the uploaded file.
up(DEBUG, pathToUpload, md5, ext) ==
    upDir(DEBUG, pathToUpload) \o <<"/">> \o md5 \o ext

\* fsx.existsSync, the file written by mv, and fsx.unlinkSync.
existsSync(d, path) == \E f \in d : f.path = path

mv(d, path, content) ==
    {f \in d : f.path # path} \cup {[path |-> path, content |-> content]}

unlinkSync(d, path) == {f \in d : f.path # path}

\* Every CDN_* variable set to a value with data.
EnvSet == [k \in 1..Len(CdnNames) |-> [set |-> TRUE, value |-> <<" ", "k">>]]

\* The requests: without files, with no named file under the keyword, and
\* with a file of an allowed or of another extension. files is whether
\* req.files has keys; name and md5 are those of files[imageKeyWord ?? "img"].
UploadRequests ==
    {[files |-> FALSE, name |-> <<>>, md5 |-> <<>>],
     [files |-> TRUE, name |-> <<>>, md5 |-> <<>>]}
       \cup [files : {TRUE},
             name : {<<"a", ".", "P", "n", "g">>, <<"a", ".", "j", "s">>},
             md5 : {<<"m">>, <<"n">>}]

\* The values of process.env.DEBUG and of pathToUpload.
DebugValues == {"false", "true"}

UploadPaths == {<<"i">>}

PendingUpload ==
    [kind |-> "pending", value |-> <<>>, fn |-> "", up |-> <<>>, error |-> ""]

InitUpload ==
    /\ now = EPOCH
    /\ regressed = FALSE
    /\ lastTimestamp = -1
    /\ sequence = 0
    /\ instances = <<>>
    /\ pc = "idle"
    /\ caller = 0
    /\ result = NoResult
    /\ issued = <<>>
    /\ callers = [c \in 1..MaxUploads |-> PendingUpload]
    /\ env \in {EnvUnset, EnvSet}
    /\ bucket = {}
    /\ disk \in {{},
                 {[path |-> up("false", <<"i">>, <<"m">>, <<".", "p", "n", "g">>),
                   content |-> 0]}}

\* file_upload_to_local_server.ts:29-70, file_upload_to_spaces_bucket.ts:
\* 36-81: the call up to its first await. The checks throw in the order of
\* the source; the bucket upload starts with envValidator and does not test
\* whether the destination exists. Calls are numbered in the order they
\* start.
UploadBegin(c, fn, req, pathToUpload, DEBUG) ==
    /\ callers[c].kind = "pending"
    /\ \A d \in 1..(c - 1) : callers[d].kind # "pending"
    /\ LET ext == ToLowerCase(ExtName(req.name))
           path == up(DEBUG, pathToUpload, req.md5, ext)
           rejected(msg) ==
               [PendingUpload EXCEPT !.kind = "reject", !.fn = fn,
                                     !.error = msg]
       IN  callers' = [callers EXCEPT ![c] =
              IF fn = "FileUploadToSpacesBucket" /\ envValidator(env) # ""
              THEN rejected("env is required")
              ELSE IF ~req.files
              THEN rejected("Please provide an image file")
              ELSE IF req.name = <<>>
              THEN rejected("Not provided file for img")
              ELSE IF ext \notin ALLOWED_EXTENSIONS
              THEN rejected("The file format is not supported")
              ELSE IF fn = "FileUploadToLocalServer" /\ existsSync(disk, path)
              THEN [rejected("Uploaded file already exists. Please try another one")
                       EXCEPT !.up = path]
              ELSE [PendingUpload EXCEPT !.kind = "ensureDir", !.fn = fn,
                                         !.up = path]]
    /\ UNCHANGED <<now, regressed, lastTimestamp, sequence, instances, pc,
                   caller, result, issued, env, bucket, disk>>

\* file_upload_to_local_server.ts:69-70, file_upload_to_spaces_bucket.ts:
\* 80-81: fsx.ensureDir settles; when it resolves, mv is called.
UploadEnsureDir(c, ensured) ==
    /\ callers[c].kind = "ensureDir"
    /\ callers' = [callers EXCEPT ![c] =
          IF ensured THEN [@ EXCEPT !.kind = "mv"]
          ELSE [@ EXCEPT !.kind = "reject", !.error = "ensureDir"]]
    /\ UNCHANGED <<now, regressed, lastTimestamp, sequence, instances, pc,
                   caller, result, issued, env, bucket, disk>>

\* file_upload_to_local_server.ts:70-73, file_upload_to_spaces_bucket.ts:
\* 81-96: mv settles. It writes the destination whether or not a file is
\* there. When it has written the file, the local upload returns the path
\* without "./public"; the bucket upload reads the file back and sends it
\* to the bucket under the path without "./public/".
UploadMove(c, moved) ==
    /\ callers[c].kind = "mv"
    /\ IF moved
       THEN /\ disk' = mv(disk, callers[c].up, c)
            /\ callers' = [callers EXCEPT ![c] =
                  IF callers[c].fn = "FileUploadToLocalServer"
                  THEN [@ EXCEPT !.kind = "return",
                                 !.value = Replace(callers[c].up, public, <<>>)]
                  ELSE [@ EXCEPT !.kind = "upload",
                                 !.value = Replace(callers[c].up,
                                                   public \o <<"/">>, <<>>)]]
       ELSE /\ disk' = disk
            /\ callers' = [callers EXCEPT ![c] =
                  [@ EXCEPT !.kind = "reject", !.error = "mv"]]
    /\ UNCHANGED <<now, regressed, lastTimestamp, sequence, instances, pc,
                   caller, result, issued, env, bucket>>

\* file_upload_to_spaces_bucket.ts:86-104: s3.upload settles. When it
\* resolves, the object is in the bucket and the local copy is unlinked,
\* which throws when an overlapping call has unlinked it already; when it
\* rejects, with the object stored or not, the call rejects at the await
\* and the local copy stays as it is.
UploadStore(c, stored) ==
    /\ callers[c].kind = "upload"
    /\ IF stored
       THEN /\ bucket' = bucket \cup {callers[c].value}
            /\ disk' = unlinkSync(disk, callers[c].up)
            /\ callers' = [callers EXCEPT ![c] =
                  IF existsSync(disk, callers[c].up)
                  THEN [@ EXCEPT !.kind = "return"]
                  ELSE [@ EXCEPT !.kind = "reject", !.value = <<>>,
                                 !.error = "unlinkSync"]]
       ELSE /\ bucket' \in {bucket, bucket \cup {callers[c].value}}
            /\ disk' = disk
            /\ callers' = [callers EXCEPT ![c] =
                  [@ EXCEPT !.kind = "reject", !.value = <<>>,
                            !.error = "s3.upload"]]
    /\ UNCHANGED <<now, regressed, lastTimestamp, sequence, instances, pc,
                   caller, result, issued, env>>

FileUploadToLocalServer(c, req, pathToUpload, DEBUG) ==
    UploadBegin(c, "FileUploadToLocalServer", req, pathToUpload, DEBUG)

FileUploadToSpacesBucket(c, req, pathToUpload, DEBUG) ==
    UploadBegin(c, "FileUploadToSpacesBucket", req, pathToUpload, DEBUG)

NextLocalUpload ==
    \/ \E c \in 1..MaxUploads, req \in UploadRequests,
          pathToUpload \in UploadPaths, DEBUG \in DebugValues :
          FileUploadToLocalServer(c, req, pathToUpload, DEBUG)
    \/ \E c \in 1..MaxUploads, ensured \in BOOLEAN : UploadEnsureDir(c, ensured)
    \/ \E c \in 1..MaxUploads, moved \in BOOLEAN : UploadMove(c, moved)

SpecLocalUpload == InitUpload /\ [][NextLocalUpload]_vars

NextBucketUpload ==
    \/ \E c \in 1..MaxUploads, req \in UploadRequests,
          pathToUpload \in UploadPaths, DEBUG \in DebugValues :
          FileUploadToSpacesBucket(c, req, pathToUpload, DEBUG)
    \/ \E c \in 1..MaxUploads, ensured \in BOOLEAN : UploadEnsureDir(c, ensured)
    \/ \E c \in 1..MaxUploads, moved \in BOOLEAN : UploadMove(c, moved)
    \/ \E c \in 1..MaxUploads, stored \in BOOLEAN : UploadStore(c, stored)

SpecBucketUpload == InitUpload /\ [][NextBucketUpload]_vars

(***************************************************************************)
(* Reading an ID back: the decimal string as an integer, and its fields.   *)
(***************************************************************************)
DigitValue(c) == CHOOSE d \in 0..9 : Digits[d + 1] = c

IsDigit(c) == \E d \in 0..9 : Digits[d + 1] = c

RECURSIVE ParseNat(_)
ParseNat(s) ==
    IF s = <<>> THEN 0
    ELSE 10 * ParseNat(SubSeq(s, 1, Len(s) - 1)) + DigitValue(s[Len(s)])

ParseBigInt(s) == IF s[1] = "-" THEN -ParseNat(Tail(s)) ELSE ParseNat(s)

\* A decimal numeral: digits after an optional "-", no leading zero, no "-0".
IsDecimal(s) ==
    LET d == IF s # <<>> /\ s[1] = "-" THEN Tail(s) ELSE s
    IN  /\ d # <<>>
        /\ \A k \in 1..Len(d) : IsDigit(d[k])
        /\ Len(d) > 1 => d[1] # "0"
        /\ d = <<"0">> => s = d

TimestampOf(s) == ShiftRight(ParseBigInt(s), MACHINE_ID_BITS + SEQUENCE_BITS)

MachineIdOf(s) == ShiftRight(ParseBigInt(s), SEQUENCE_BITS) % Pow2(MACHINE_ID_BITS)

SequenceOf(s) == ParseBigInt(s) % Pow2(SEQUENCE_BITS)

Positions == 1..Len(issued)

SnowflakeReturned == result.op = "getSnowflakeID" /\ result.kind = "return"

SnowflakeThrew == result.op = "getSnowflakeID" /\ result.kind = "throw"

(***************************************************************************)
(* Claims.                                                                 *)
(***************************************************************************)

\* C1: as long as the clock has not moved backward, no two successful
\* getSnowflakeID calls of the process, on the same or on different
\* instances, have returned the same ID.
C1_NoIDIssuedTwice ==
    ~regressed =>
        \A j, k \in Positions : j # k => issued[j] # issued[k]

\* Two instances with different machine ids have issued IDs in the same
\* millisecond, and the sequence has wrapped, under a clock that never
\* moved backward.
C1_Witness ==
    /\ ~regressed
    /\ Len(issued) = MaxCalls
    /\ \E j, k \in Positions :
          /\ MachineIdOf(issued[j]) # MachineIdOf(issued[k])
          /\ TimestampOf(issued[j]) = TimestampOf(issued[k])
    /\ \E j, k \in Positions :
          j < k /\ SequenceOf(issued[j]) = MAX_SEQUENCE /\ SequenceOf(issued[k]) = 0

\* C2: as long as the clock has not moved backward, no getSnowflakeID call
\* throws.
C2_ThrowsOnlyOnRegression == ~regressed => ~SnowflakeThrew

\* C3: once every one of the NCallers callers sharing the generator has had
\* its request served, every caller holds an ID and the IDs are pairwise
\* distinct.
C3_EveryCallerGetsADistinctID ==
    (\A c \in 1..NCallers : callers[c].kind \notin {"pending", "running"}) =>
        /\ \A c \in 1..NCallers : callers[c].kind = "return"
        /\ \A c, d \in 1..NCallers :
              c # d => callers[c].value # callers[d].value

\* C4: the (timestamp, sequence) pairs decoded from the IDs returned by
\* successive successful calls never decrease in lexicographic order.
C4_PairsNeverDecrease ==
    \A k \in Positions :
        k > 1 =>
            \/ TimestampOf(issued[k - 1]) < TimestampOf(issued[k])
            \/ /\ TimestampOf(issued[k - 1]) = TimestampOf(issued[k])
               /\ SequenceOf(issued[k - 1]) <= SequenceOf(issued[k])

\* IDs of one millisecond, IDs of different milliseconds and an ID issued
\* after the clock moved backward and forward again.
C4_Witness ==
    /\ regressed
    /\ \E k \in Positions :
          k > 1 /\ TimestampOf(issued[k - 1]) = TimestampOf(issued[k])
    /\ \E k \in Positions :
          k > 1 /\ TimestampOf(issued[k - 1]) < TimestampOf(issued[k])

\* C5: a getSnowflakeID call that reads a clock offset strictly below
\* lastTimestamp throws the clock-moved-backwards error and leaves
\* lastTimestamp and sequence as they were.
C5_RegressionThrowsAndKeepsState ==
    [][ (/\ pc = "idle"
         /\ now' = now
         /\ RelativeTimestamp(now) < lastTimestamp)
        => /\ lastTimestamp' = lastTimestamp
           /\ sequence' = sequence
           /\ pc' = "idle"
           /\ (result'.op = "getSnowflakeID" /\ result' # result)
                 => /\ result'.kind = "throw"
                    /\ result'.error = "Clock moved backwards. Rejecting request."
                    /\ issued' = issued ]_vars

\* A call has thrown on a reading below lastTimestamp, with a sequence and a
\* lastTimestamp that a reset would have changed.
C5_Witness ==
    /\ SnowflakeThrew
    /\ RelativeTimestamp(now) < lastTimestamp
    /\ sequence > 0
    /\ lastTimestamp > 0
    /\ issued # <<>>

\* C6: new ID(machineId) throws and yields no instance when machineId < 0 or
\* machineId > MAX_MACHINE_ID; for every machineId in 0..MAX_MACHINE_ID it
\* yields one new instance holding that machineId; and no operation changes
\* the machineId of an existing instance.
C6_ConstructorRange ==
    [][ /\ \A i \in 1..Len(instances) :
              i <= Len(instances') /\ instances'[i] = instances[i]
        /\ Len(instances') # Len(instances)
              => /\ Len(instances') = Len(instances) + 1
                 /\ instances'[Len(instances')] \in 0..MAX_MACHINE_ID
                 /\ result'.op = "new ID"
                 /\ result'.kind = "return"
                 /\ result'.arg = instances'[Len(instances')]
                 /\ result'.inst = Len(instances')
        /\ (result'.op = "new ID" /\ result' # result)
              => IF result'.arg < 0 \/ result'.arg > MAX_MACHINE_ID
                 THEN result'.kind = "throw" /\ instances' = instances
                 ELSE result'.kind = "return"
                      /\ instances' = Append(instances, result'.arg) ]_vars

\* Instances hold both ends of the range, and the last construction, with
\* an argument outside the range, threw.
C6_Witness ==
    /\ Len(instances) = 2
    /\ instances[1] = 0
    /\ instances[2] = MAX_MACHINE_ID
    /\ result.op = "new ID"
    /\ result.kind = "throw"
    /\ result.arg = MAX_MACHINE_ID + 1

\* C7: after MAX_SEQUENCE + 1 IDs in a row with one timestamp T, the next ID
\* issued has a timestamp strictly greater than T; and no two IDs issued
\* carry the same timestamp together with sequence 0.
C7_WrapAdvancesTimestamp ==
    /\ \A k \in Positions :
          (/\ k > MAX_SEQUENCE + 1
           /\ \A j \in (k - MAX_SEQUENCE - 1)..(k - 1) :
                 TimestampOf(issued[j]) = TimestampOf(issued[k - 1]))
          => TimestampOf(issued[k]) > TimestampOf(issued[k - 1])
    /\ \A j, k \in Positions :
          (/\ j # k
           /\ SequenceOf(issued[j]) = 0
           /\ SequenceOf(issued[k]) = 0)
          => TimestampOf(issued[j]) # TimestampOf(issued[k])

\* MAX_SEQUENCE + 1 IDs were issued at one timestamp, sequences 0 to
\* MAX_SEQUENCE, and one more ID after them.
C7_Witness ==
    \E k \in Positions :
        /\ k > MAX_SEQUENCE + 1
        /\ \A j \in (k - MAX_SEQUENCE - 1)..(k - 1) :
              /\ TimestampOf(issued[j]) = TimestampOf(issued[k - 1])
              /\ SequenceOf(issued[j]) = j - (k - MAX_SEQUENCE - 1)
        /\ SequenceOf(issued[k]) = 0

\* C8: the machine-id field decoded from the ID a getSnowflakeID call
\* returned is the machineId of the instance the call was made on.
C8_MachineIdRoundTrip ==
    SnowflakeReturned => MachineIdOf(result.value) = instances[result.inst]

\* An ID with a non-zero machine id, a non-zero sequence and a non-zero
\* timestamp was returned, by the second of two instances with different
\* machine ids.
C8_Witness ==
    /\ SnowflakeReturned
    /\ result.inst = 2
    /\ instances[2] = MAX_MACHINE_ID
    /\ instances[1] # instances[2]
    /\ SequenceOf(result.value) = MAX_SEQUENCE
    /\ TimestampOf(result.value) > 0

\* C9: the string a getSnowflakeID call returns is the decimal numeral of
\* (lastTimestamp << (MACHINE_ID_BITS + SEQUENCE_BITS))
\*    | (machineId << SEQUENCE_BITS) | sequence,
\* with lastTimestamp and sequence as the call left them (read before the
\* next call starts); the three fields do not overlap, so the value is
\* their sum.
C9_ReturnsPackedDecimal ==
    (pc = "idle" /\ SnowflakeReturned) =>
        /\ IsDecimal(result.value)
        /\ ParseBigInt(result.value) =
              lastTimestamp * Pow2(MACHINE_ID_BITS + SEQUENCE_BITS)
              + instances[result.inst] * Pow2(SEQUENCE_BITS)
              + sequence

\* A call returned a numeral of two digits or more, packed from a timestamp
\* that differs from the one of the call before it.
C9_Witness ==
    /\ pc = "idle"
    /\ SnowflakeReturned
    /\ Len(result.value) >= 2
    /\ Len(issued) >= 2
    /\ TimestampOf(issued[Len(issued)]) # TimestampOf(issued[Len(issued) - 1])
    /\ instances[result.inst] > 0
    /\ sequence = 0

\* C10: the process-wide sequence is always within 0..MAX_SEQUENCE.
C10_SequenceInRange == 0 <= sequence /\ sequence <= MAX_SEQUENCE

\* The sequence has just wrapped from MAX_SEQUENCE to 0 inside a call that
\* followed a getUniqueID call, under a clock that moved backward.
C10_Witness ==
    /\ pc = "wait"
    /\ sequence = 0
    /\ result.op = "getUniqueID"
    /\ regressed

\* C11: lastTimestamp and sequence are shared by all instances: a
\* getSnowflakeID call on any instance whose timestamp equals the timestamp
\* of the ID issued last, by whichever instance, issues an ID whose sequence
\* is the sequence of that last ID plus one, modulo MAX_SEQUENCE + 1, and
\* never restarts at 0 before MAX_SEQUENCE is passed.
C11_SequenceSharedAcrossInstances ==
    [][ /\ (/\ pc = "idle"
            /\ now' = now
            /\ issued # <<>>
            /\ RelativeTimestamp(now) = TimestampOf(issued[Len(issued)])
            /\ \/ issued' # issued
               \/ pc' = "wait")
           => /\ sequence' = (SequenceOf(issued[Len(issued)]) + 1)
                                % (MAX_SEQUENCE + 1)
              /\ issued' # issued
                    => /\ Len(issued') = Len(issued) + 1
                       /\ SequenceOf(issued'[Len(issued')]) = sequence'
        /\ (pc = "wait" /\ issued' # issued)
           => /\ Len(issued') = Len(issued) + 1
              /\ SequenceOf(issued'[Len(issued')]) =
                    (SequenceOf(issued[Len(issued)]) + 1) % (MAX_SEQUENCE + 1) ]_vars

\* The last two IDs come from instances with different machine ids, carry
\* one timestamp, and the second continues the sequence of the first.
C11_Witness ==
    /\ Len(issued) >= 2
    /\ LET a == issued[Len(issued) - 1]
           b == issued[Len(issued)]
       IN  /\ MachineIdOf(a) # MachineIdOf(b)
           /\ TimestampOf(a) = TimestampOf(b)
           /\ SequenceOf(a) = 0
           /\ SequenceOf(b) = 1
    /\ result.op = "getSnowflakeID"
    /\ result.inst = 2

\* C19: when the sequence wraps, getSnowflakeID does not return until the
\* epoch-relative offset of the clock (now - EPOCH) is strictly greater than
\* the previous lastTimestamp, and the timestamp it adopts is that
\* epoch-relative offset.
C19_WrapAdoptsEpochRelativeOffset ==
    [][ (pc = "wait" /\ pc' = "idle")
        => /\ RelativeTimestamp(now) > lastTimestamp
           /\ lastTimestamp' = RelativeTimestamp(now)
           /\ TimestampOf(issued'[Len(issued')]) = RelativeTimestamp(now) ]_vars

\* C20: a getSnowflakeID call whose timestamp equals lastTimestamp sets
\* sequence to (sequence + 1) mod (MAX_SEQUENCE + 1); and of any two IDs
\* issued with the same timestamp, the one issued later has the strictly
\* greater sequence (every ID is compared, as it is issued, with all the IDs
\* issued before it).
C20_SameTimestampSequenceGrows ==
    [][ /\ (/\ pc = "idle"
            /\ now' = now
            /\ RelativeTimestamp(now) = lastTimestamp
            /\ \/ issued' # issued
               \/ pc' = "wait")
           => sequence' = (sequence + 1) % (MAX_SEQUENCE + 1)
        /\ issued' # issued
           => \A j \in 1..Len(issued) :
                 TimestampOf(issued'[j]) = TimestampOf(issued'[Len(issued')])
                 => SequenceOf(issued'[j]) < SequenceOf(issued'[Len(issued')]) ]_vars

\* Every sequence value of one timestamp has been issued, in order, and the
\* next call of that timestamp has wrapped the sequence to 0.
C20_Witness ==
    /\ pc = "wait"
    /\ sequence = 0
    /\ Len(issued) >= MAX_SEQUENCE + 1
    /\ \A d \in 0..MAX_SEQUENCE :
          LET id == issued[Len(issued) - MAX_SEQUENCE + d]
          IN  /\ SequenceOf(id) = d
              /\ TimestampOf(id) = lastTimestamp
    /\ RelativeTimestamp(now) = lastTimestamp

(***************************************************************************)
(* Reading a unique ID back.                                               *)
(***************************************************************************)
LowerCase ==
    <<"a", "b", "c", "d", "e", "f", "g", "h", "i", "j", "k", "l", "m",
      "n", "o", "p", "q", "r", "s", "t", "u", "v", "w", "x", "y", "z">>

UpperCaseLetters ==
    {"A", "B", "C", "D", "E", "F", "G", "H", "I", "J", "K", "L", "M",
     "N", "O", "P", "Q", "R", "S", "T", "U", "V", "W", "X", "Y", "Z"}

\* a-z A-Z 0-9.
Alphanumeric ==
    {LowerCase[k] : k \in 1..26} \cup UpperCaseLetters
        \cup {Digits[k] : k \in 1..10}

IsBase36Digit(c) == IsDigit(c) \/ \E k \in 1..26 : LowerCase[k] = c

Base36Value(c) ==
    IF IsDigit(c) THEN DigitValue(c)
    ELSE 9 + (CHOOSE k \in 1..26 : LowerCase[k] = c)

RECURSIVE ParseBase36(_)
ParseBase36(s) ==
    IF s = <<>> THEN 0
    ELSE 36 * ParseBase36(SubSeq(s, 1, Len(s) - 1)) + Base36Value(s[Len(s)])

\* A base-36 numeral of a natural number: digits, no leading zero.
IsBase36(s) ==
    /\ s # <<>>
    /\ \A k \in 1..Len(s) : IsBase36Digit(s[k])
    /\ Len(s) > 1 => s[1] # "0"

UniqueIDReturned == result.op = "getUniqueID" /\ result.kind = "return"

\* C12: for a length of 0 or more, getUniqueID(length, false) returns a
\* string of exactly length characters, each of a-z A-Z 0-9, and
\* getUniqueID(length, true) returns the base-36 numeral of the clock
\* reading followed by exactly length such characters.
C12_UniqueIDShape ==
    (UniqueIDReturned /\ result.arg >= 0) =>
        LET s == result.value
            p == Len(s) - result.arg
        IN  /\ p >= 0
            /\ \A k \in (p + 1)..Len(s) : s[k] \in Alphanumeric
            /\ IF result.flag
               THEN /\ IsBase36(SubSeq(s, 1, p))
                    /\ ParseBase36(SubSeq(s, 1, p)) = now
               ELSE p = 0

\* getUniqueID(MaxLength, true) returned, at a clock reading whose base-36
\* numeral has several digits, letters among them, a string ending in the
\* last character of the alphabet.
C12_Witness ==
    /\ UniqueIDReturned
    /\ result.flag
    /\ result.arg = MaxLength
    /\ now = 1625097600
    /\ Len(result.value) = 6 + MaxLength
    /\ \E k \in 1..6 : ~IsDigit(result.value[k])
    /\ result.value[Len(result.value)] = "9"

\* C13: getUniqueID returns a string for every length, 0 and negative
\* lengths included, and either flag: with a length of 0 or less the string
\* is the base-36 clock numeral alone when the flag is set, and the empty
\* string when it is not; getUniqueID(0, false) returns "".
C13_UniqueIDNeverFails ==
    result.op = "getUniqueID" =>
        /\ result.kind = "return"
        /\ result.error = ""
        /\ result.value \in Seq(Alphanumeric)
        /\ result.arg <= 0 =>
              result.value = IF result.flag THEN ToString36(now) ELSE <<>>
        /\ (result.arg = 0 /\ ~result.flag) => result.value = <<>>

\* getUniqueID(0, false) has returned the empty string.
C13_Witness ==
    /\ UniqueIDReturned
    /\ result.arg = 0
    /\ ~result.flag
    /\ result.value = <<>>

\* C14: no two export calls of the process (jsonToCsv or jsonToExcel, with
\* the same base name or not) that generated a file name hold the same file
\* path, although every call constructed its own new ID(1): the calls
\* compared are those writing or having written their file (jsonToCsv with
\* an empty array writes no file and returns "").
C14_ExportPathsDistinct ==
    \A c, d \in DOMAIN callers :
        (/\ c # d
         /\ callers[c].kind \in {"writing", "return"}
         /\ callers[d].kind \in {"writing", "return"}
         /\ callers[c].value # <<>>
         /\ callers[d].value # <<>>)
        => callers[c].value # callers[d].value

\* Two calls of one function whose base names have the same upper case, each
\* with its own generator of machine id 1, took their IDs at one timestamp
\* and both returned their paths.
C14_Witness ==
    /\ callers[1].kind = "return"
    /\ callers[2].kind = "return"
    /\ callers[1].fn = callers[2].fn
    /\ callers[1].name # callers[2].name
    /\ callers[1].inst # callers[2].inst
    /\ instances[callers[1].inst] = instances[callers[2].inst]
    /\ Len(issued) >= 2
    /\ TimestampOf(issued[1]) = TimestampOf(issued[2])
    /\ callers[1].value = ExportFilePath(callers[1].fn, <<"U">>, issued[1])
    /\ callers[2].value = ExportFilePath(callers[2].fn, <<"U">>, issued[2])

\* C15: every errorResponse call that has ended has sent exactly one JSON
\* response, with success = false, and has not thrown: the message is the
\* Error's message or error.toString(), or 'Server crashed ' when building
\* that response failed, also when the default instance string, which calls
\* getSnowflakeID, could not be built.
C15_ErrorResponseAlwaysResponds ==
    \A c \in DOMAIN callers :
        callers[c].kind \in {"return", "throw"} =>
            /\ callers[c].kind = "return"
            /\ callers[c].sent = 1
            /\ callers[c].success = FALSE
            /\ callers[c].message \in {callers[c].error.message, "Server crashed "}
            /\ callers[c].error.type = "null" => callers[c].message = "Server crashed "

C17_UpdateQueryParamNeverThrows ==
    result.op = "cUpdateQueryParam" =>
        LET url == result.arg[1]
            key == result.arg[2]
            value == result.arg[3]
            valid == /\ url.scheme \in {"", "http://", "https://"}
                     /\ Len(url.host) >= 2
                     /\ url.query # <<>> => url.path # ""
        IN  /\ result.kind = "return"
            /\ IF valid
               THEN /\ result.value.host = url.host
                    /\ \E k \in 1..Len(result.value.query) :
                          /\ result.value.query[k] = <<key, value>>
                          /\ \A j \in 1..Len(result.value.query) :
                                result.value.query[j][1] = key => j = k
                    /\ \A j \in 1..Len(url.query) :
                          url.query[j][1] # key
                          => \E k \in 1..Len(result.value.query) :
                                result.value.query[k] = url.query[j]
               ELSE result.value = url

\* C18: compareJSONObjects(a, b) returns true exactly when a and b are
\* deeply equal (the same members with deeply equal values); in particular
\* compareJSONObjects(a, a) returns true.
C18_CompareIsDeepEquality ==
    result.op = "compareJSONObjects" =>
        /\ result.kind = "return"
        /\ result.value = (result.arg[1] = result.arg[2])

\* C21: a getSnowflakeID call that reads a timestamp strictly greater than
\* lastTimestamp resets sequence to 0, sets lastTimestamp to that timestamp
\* and returns an ID of that timestamp with sequence 0; so every ID whose
\* timestamp is greater than the timestamp of the ID issued before it (or
\* than the initial lastTimestamp -1, for the first ID) carries sequence 0.
C21_NewTimestampResetsSequence ==
    [][ /\ (/\ pc = "idle"
            /\ now' = now
            /\ RelativeTimestamp(now) > lastTimestamp
            /\ issued' # issued)
           => /\ sequence' = 0
              /\ lastTimestamp' = RelativeTimestamp(now)
              /\ pc' = "idle"
              /\ Len(issued') = Len(issued) + 1
              /\ SequenceOf(issued'[Len(issued')]) = 0
              /\ TimestampOf(issued'[Len(issued')]) = RelativeTimestamp(now)
        /\ issued' # issued
           => LET previous == IF issued = <<>> THEN -1
                              ELSE TimestampOf(issued[Len(issued)])
              IN  TimestampOf(issued'[Len(issued')]) > previous
                  => SequenceOf(issued'[Len(issued')]) = 0 ]_vars

\* After IDs with sequences 0 and MAX_SEQUENCE at one timestamp, a call at
\* a later clock reading has issued an ID of the new timestamp with
\* sequence 0, and no wrap has put the raw clock into lastTimestamp.
C21_Witness ==
    /\ pc = "idle"
    /\ SnowflakeReturned
    /\ Len(issued) >= 3
    /\ sequence = 0
    /\ lastTimestamp = RelativeTimestamp(now)
    /\ LET a == issued[Len(issued) - 2]
           b == issued[Len(issued) - 1]
           c == issued[Len(issued)]
       IN  /\ TimestampOf(a) = TimestampOf(b)
           /\ SequenceOf(b) = 1
           /\ TimestampOf(c) > TimestampOf(b)
           /\ TimestampOf(c) = RelativeTimestamp(now)
           /\ SequenceOf(c) = 0

\* C22: every getSnowflakeID call terminates: a call that has entered the
\* busy-wait of waitNextMilles on a wrap of the sequence leaves it, and
\* returns its ID, once the clock reads above lastTimestamp, provided the
\* clock eventually advances.
C22_WaitTerminates == (pc = "wait") ~> (pc = "idle" /\ SnowflakeReturned)

\* A call is spinning in waitNextMilles on a clock that moved back to
\* lastTimestamp or below after the call began.
C22_Witness ==
    /\ pc = "wait"
    /\ caller \in 1..Len(instances)
    /\ KeepsWaiting(now, lastTimestamp)

\* C23, as stated: an ID returned with a timestamp of 2^TIMESTAMP_BITS or
\* more no longer carries the machineId of its instance in the machine-id
\* bits (bits SEQUENCE_BITS .. SEQUENCE_BITS + MACHINE_ID_BITS - 1).
C23_LargeTimestampCorruptsMachineId ==
    (/\ pc = "idle"
     /\ SnowflakeReturned
     /\ TimestampOf(result.value) >= Pow2(TIMESTAMP_BITS))
    => MachineIdOf(result.value) # instances[result.inst]

\* C23, amended: the timestamp is never masked, and it does not need to be:
\* the ID is an unbounded integer, so a timestamp of 2^TIMESTAMP_BITS or
\* more only makes the ID longer. The machine-id bits still hold the
\* machineId, the sequence bits the sequence, and all the bits above them
\* the whole timestamp.
C23_LargeTimestampKeepsMachineId ==
    (/\ pc = "idle"
     /\ SnowflakeReturned
     /\ TimestampOf(result.value) >= Pow2(TIMESTAMP_BITS))
    => /\ MachineIdOf(result.value) = instances[result.inst]
       /\ SequenceOf(result.value) = sequence
       /\ TimestampOf(result.value) = lastTimestamp
       /\ ParseBigInt(result.value) >=
             Pow2(TIMESTAMP_BITS + MACHINE_ID_BITS + SEQUENCE_BITS)

\* Two IDs with a timestamp of 2^TIMESTAMP_BITS were returned, one to an
\* instance of machineId 0 and then one to an instance of machineId
\* MAX_MACHINE_ID, the latter with sequence MAX_SEQUENCE.
C23_Witness ==
    /\ pc = "idle"
    /\ SnowflakeReturned
    /\ TimestampOf(result.value) = Pow2(TIMESTAMP_BITS)
    /\ SequenceOf(result.value) = MAX_SEQUENCE
    /\ instances[result.inst] = MAX_MACHINE_ID
    /\ Len(issued) >= 2
    /\ MachineIdOf(issued[Len(issued) - 1]) = 0
    /\ TimestampOf(issued[Len(issued) - 1]) = TimestampOf(result.value)

\* C24: as long as the clock has never moved backward, lastTimestamp is
\* either the initial -1 or an epoch-relative value that is not greater than
\* the current offset of the clock, now - EPOCH.
C24_LastTimestampNotAheadOfClock ==
    ~regressed
    => \/ lastTimestamp = -1
       \/ lastTimestamp <= RelativeTimestamp(now)

\* C25: from the fresh state (lastTimestamp -1, sequence 0) a getSnowflakeID
\* call succeeds and issues sequence 0 whatever the clock reads, readings
\* before the epoch included.
C25_FirstCallIssuesSequenceZero ==
    [][ (/\ pc = "idle"
         /\ lastTimestamp = -1
         /\ sequence = 0
         /\ result' # result
         /\ result'.op = "getSnowflakeID")
        => /\ result'.kind = "return"
           /\ SequenceOf(result'.value) = 0 ]_vars

\* C26: a getUniqueID call leaves lastTimestamp and sequence as they were,
\* and with them everything a later getSnowflakeID call reads besides the
\* clock: the instances, the pending wait and the IDs issued so far. Calls
\* of getUniqueID placed between getSnowflakeID calls therefore do not
\* change the IDs those return.
C26_UniqueIDLeavesGeneratorState ==
    [][ (result' # result /\ result'.op = "getUniqueID")
        => /\ lastTimestamp' = lastTimestamp
           /\ sequence' = sequence
           /\ instances' = instances
           /\ pc' = pc
           /\ caller' = caller
           /\ issued' = issued ]_vars

\* getUniqueID has returned in the middle of a millisecond in which
\* getSnowflakeID has already issued IDs up to sequence MAX_SEQUENCE.
C26_Witness ==
    /\ UniqueIDReturned
    /\ pc = "idle"
    /\ issued # <<>>
    /\ sequence = MAX_SEQUENCE
    /\ lastTimestamp = RelativeTimestamp(now)
    /\ TimestampOf(issued[Len(issued)]) = lastTimestamp
    /\ SequenceOf(issued[Len(issued)]) = sequence

\* C27: constructing an ID, whether the constructor returns or throws,
\* leaves lastTimestamp and sequence (and the IDs issued) as they were.
C27_ConstructLeavesStatics ==
    [][ (result' # result /\ result'.op = "new ID")
        => /\ result'.kind \in {"return", "throw"}
           /\ lastTimestamp' = lastTimestamp
           /\ sequence' = sequence
           /\ issued' = issued ]_vars

\* A second instance has been constructed, and then a construction has
\* thrown, after IDs were issued up to sequence MAX_SEQUENCE in the current
\* millisecond.
C27_Witness ==
    /\ result.op = "new ID"
    /\ result.kind = "throw"
    /\ Len(instances) = MaxInstances
    /\ issued # <<>>
    /\ sequence = MAX_SEQUENCE
    /\ lastTimestamp = RelativeTimestamp(now)
    /\ SequenceOf(issued[Len(issued)]) = sequence

\* C28: of the FileUploadToLocalServer calls that target the same
\* destination path (same pathToUpload, md5 and extension), overlapping or
\* not, at most one resolves; the file a call has written is never
\* overwritten by another.
C28_AtMostOneUploadPerDestination ==
    \A c, d \in 1..MaxUploads :
        (/\ c # d
         /\ callers[c].fn = "FileUploadToLocalServer"
         /\ callers[d].fn = "FileUploadToLocalServer"
         /\ callers[c].kind = "return"
         /\ callers[d].kind = "return")
        => callers[c].up # callers[d].up

\* C29: when a FileUploadToSpacesBucket call that has moved its file under
\* ./public settles, resolving with the key or rejecting, no file is left
\* at the path it moved the file to.
C29_SettledUploadLeavesNoLocalCopy ==
    [][ \A c \in 1..MaxUploads :
           (/\ callers[c].fn = "FileUploadToSpacesBucket"
            /\ callers[c].kind = "upload"
            /\ callers'[c].kind \in {"return", "reject"})
           => ~existsSync(disk', callers[c].up) ]_vars

====
